---- MODULE Spec2Model ----
(***************************************************************************)
(* A model of the two command line games of the repository:               *)
(*   src/madlibs_cli.py  the Mad Libs template pipeline                   *)
(*       strip_code_fence -> parse_template_payload -> prompt_for_words   *)
(*       -> StoryTemplate.build                                           *)
(*   src/hangman_cli.py  get_random_word and the play_hangman loop        *)
(*                                                                         *)
(* Text is a sequence of tokens.  Every token is a piece of a Python      *)
(* string that the code never looks inside, so that a token sequence      *)
(* stands for exactly one string and the string operations of the code    *)
(* (strip, split, lower, startswith, format) are computed token by token. *)
(***************************************************************************)
EXTENDS Integers, Sequences, FiniteSets, TLC

VARIABLES
    \* src/madlibs_cli.py
    response,      \* response.text, the raw text of the generative source
    as_dict,       \* the JSON value that the document in the response decodes to
    payload,       \* strip_code_fence(response.text)
    payload2,      \* strip_code_fence applied to its own result
    template,      \* the StoryTemplate request_template returned, or None
    answers,       \* the dictionary prompt_for_words built
    story,         \* the text build_story returned, or None
    error,         \* the exception that ended the run, or None
    pc             \* position of the run

VARIABLES
    \* src/hangman_cli.py
    reply,            \* response.text in get_random_word
    word,             \* the word get_random_word returned
    guessed_letters,  \* play_hangman: the set of accepted guesses
    wrong_guesses,    \* play_hangman: the number of wrong guesses
    guess,            \* play_hangman: the last line read, stripped and lowered
    result,           \* what play_hangman returned or get_random_word raised, or None
    hpc               \* position: "fetch", "loop", "returned", "failed", "idle"

madlibs_vars == <<response, as_dict, payload, payload2, template, answers, story, error, pc>>
hangman_vars == <<reply, word, guessed_letters, wrong_guesses, guess, result, hpc>>

vars == <<madlibs_vars, hangman_vars>>

(***************************************************************************)
(* Bounds of the model                                                     *)
(***************************************************************************)
\* longest response text, in tokens
MaxTextLen == 6

(***************************************************************************)
(* Text of a response.  FENCE is the three backticks, NL a whitespace      *)
(* character, json and JSON the language tag in two cases, DOC the         *)
(* text of one JSON document (no whitespace at its ends, no backtick).     *)
(***************************************************************************)
FENCE == "fence"
NL == "\n"
DOC == "doc"
TextTokens == {FENCE, NL, "json", "JSON", DOC}

RECURSIVE SeqsUpTo(_, _)
SeqsUpTo(S, n) ==
    IF n = 0 THEN {<<>>}
    ELSE LET shorter == SeqsUpTo(S, n - 1)
         IN  shorter \cup {Append(s, x) : s \in {t \in shorter : Len(t) = n - 1}, x \in S}

Texts == SeqsUpTo(TextTokens, MaxTextLen)

None == [type |-> "None"]

\* an exception: its class, its message, the value formatted into the message
\* and the class and argument of the exception it was raised from
Exception(type, msg, arg, cause) ==
    [type |-> type, msg |-> msg, arg |-> arg, cause |-> cause]

\* the outcome of a call: a returned value or a raised exception
Ok(v) == [ok |-> TRUE, v |-> v]
Raise(e) == [ok |-> FALSE, err |-> e]

IsWhitespace(tok) == tok \in {NL, " "}

\* str.strip(): drop the whitespace at both ends
RECURSIVE LStrip(_)
LStrip(s) ==
    IF s # <<>> /\ IsWhitespace(Head(s)) THEN LStrip(Tail(s)) ELSE s

RECURSIVE RStrip(_)
RStrip(s) ==
    IF s # <<>> /\ IsWhitespace(s[Len(s)]) THEN RStrip(SubSeq(s, 1, Len(s) - 1)) ELSE s

Strip(s) == RStrip(LStrip(s))

\* str.lower()
LowerTok(tok) == IF tok = "JSON" THEN "json" ELSE tok
Lower(s) == [i \in 1..Len(s) |-> LowerTok(s[i])]

\* str.startswith(fence)
StartsWithFence(s) == s # <<>> /\ Head(s) = FENCE

\* str.split(fence): the pieces between the fences, empty pieces kept
RECURSIVE SplitFence(_, _)
SplitFence(s, cur) ==
    IF s = <<>> THEN <<cur>>
    ELSE IF Head(s) = FENCE THEN <<cur>> \o SplitFence(Tail(s), <<>>)
    ELSE SplitFence(Tail(s), Append(cur, Head(s)))

\* the same loop returning the chunk before it is stripped
RECURSIVE FirstChunkUnstripped(_)
FirstChunkUnstripped(parts) ==
    IF parts = <<>> THEN None
    ELSE LET chunk == Strip(Head(parts))
         IN  IF chunk = <<>> \/ Lower(chunk) = <<"json">>
             THEN FirstChunkUnstripped(Tail(parts))
             ELSE [type |-> "str", v |-> Head(parts)]

\* the for loop of strip_code_fence: the first chunk that, stripped, is neither
\* empty nor the bare word json; None when every chunk is skipped
RECURSIVE FirstChunk(_)
FirstChunk(parts) ==
    IF parts = <<>> THEN None
    ELSE LET chunk == Strip(Head(parts))
         IN  IF chunk = <<>> \/ Lower(chunk) = <<"json">>
             THEN FirstChunk(Tail(parts))
             ELSE [type |-> "str", v |-> chunk]

strip_code_fence(text) ==
    LET cleaned == Strip(text)
    IN  IF StartsWithFence(cleaned)
        THEN LET found == FirstChunk(SplitFence(cleaned, <<>>))
             IN  IF found.type = "str" THEN found.v ELSE cleaned
        ELSE cleaned

\* json.loads on a text: the one document, whitespace around it allowed, decodes;
\* anything else over these tokens is not JSON and raises JSONDecodeError
JsonDecodes(text) == Strip(text) = <<DOC>>

(***************************************************************************)
(* JSON values as json.loads returns them: a tag t and a value v.  A str   *)
(* holds a token sequence, a list a sequence of values, a dict a function  *)
(* from field names to values.                                             *)
(***************************************************************************)
JStr(s) == [t |-> "str", v |-> s]
JNum == [t |-> "num", v |-> <<"5">>]
JNull == [t |-> "null", v |-> <<>>]
JList(items) == [t |-> "list", v |-> items]
JDict(f) == [t |-> "dict", v |-> f]

\* value.get(name) in the place of value[name]: None for a field the dict lacks
SubscriptGet(value, name) ==
    IF value.t = "dict"
    THEN IF name \in DOMAIN value.v THEN Ok(value.v[name]) ELSE Ok(JNull)
    ELSE Raise(Exception("TypeError", "indices", <<>>, None))

\* value[name] with a string index: the field of a dict, KeyError when the dict
\* lacks it, TypeError on every other type
Subscript(value, name) ==
    IF value.t = "dict"
    THEN IF name \in DOMAIN value.v
         THEN Ok(value.v[name])
         ELSE Raise(Exception("KeyError", "", <<name>>, None))
    ELSE Raise(Exception("TypeError", "indices", <<>>, None))

\* for item in value: the elements of a list, the characters of a str, the keys
\* of a dict; a number or null is not iterable
Iterate(value) ==
    CASE value.t = "list" -> Ok(value.v)
      [] value.t = "str" -> Ok([i \in 1..Len(value.v) |-> JStr(<<value.v[i]>>)])
      [] value.t = "dict" ->
            Ok(IF DOMAIN value.v = {} THEN <<>>
               ELSE <<JStr(<<CHOOSE k \in DOMAIN value.v : TRUE>>)>>)
      [] OTHER -> Raise(Exception("TypeError", "not iterable", <<>>, None))

\* Blank(key=item["key"], prompt=item["prompt"])
Blank(item) ==
    LET k == Subscript(item, "key")
        q == Subscript(item, "prompt")
    IN  IF ~k.ok THEN k
        ELSE IF ~q.ok THEN q
        ELSE Ok([key |-> k.v, prompt |-> q.v])

\* [Blank(...) for item in blanks_data]: the first failing element raises
RECURSIVE BlankList(_, _)
BlankList(items, done) ==
    IF items = <<>> THEN Ok(done)
    ELSE LET b == Blank(Head(items))
         IN  IF b.ok THEN BlankList(Tail(items), Append(done, b.v)) ELSE b

MinBlanks == 8
MaxBlanks == 10

\* the range test with its lower end excluded
BlankCountOkExclusive(n) == MinBlanks < n /\ n <= MaxBlanks

\* the range test without its upper end
BlankCountOkNoUpper(n) == MinBlanks <= n

\* 8 <= len(template.blanks) <= 10
BlankCountOk(n) == MinBlanks <= n /\ n <= MaxBlanks

\* the try block of parse_template_payload: blanks, then title, then skeleton
BuildTemplate(doc) ==
    LET blanks_data == Subscript(doc, "blanks")
    IN  IF ~blanks_data.ok THEN blanks_data
        ELSE LET items == Iterate(blanks_data.v)
             IN  IF ~items.ok THEN items
                 ELSE LET blanks == BlankList(items.v, <<>>)
                          title == Subscript(doc, "title")
                          skeleton == Subscript(doc, "skeleton")
                      IN  IF ~blanks.ok THEN blanks
                          ELSE IF ~title.ok THEN title
                          ELSE IF ~skeleton.ok THEN skeleton
                          ELSE Ok([title |-> title.v, blanks |-> blanks.v,
                                   skeleton |-> skeleton.v])

MSG_NOT_JSON == "Gemini response was not valid JSON."
MSG_MISSED_FIELDS == "Gemini response JSON missed required fields."
MSG_BLANK_COUNT == "Template must contain between 8 and 10 blanks."
MSG_EMPTY_RESPONSE == "Gemini returned an empty response."
MSG_MISSING_ANSWER == "Missing answer for placeholder: "

\* the chained exception of raise ... from exc
CauseOf(e) == [type |-> e.type, arg |-> e.arg]

\* parse_template_payload(payload), doc being the value of the document in it
parse_template_payload(text, doc) ==
    IF ~JsonDecodes(text)
    THEN Raise(Exception("ValueError", MSG_NOT_JSON, <<>>,
                         [type |-> "JSONDecodeError", arg |-> <<>>]))
    ELSE LET built == BuildTemplate(doc)
         IN  IF ~built.ok
             THEN Raise(Exception("ValueError", MSG_MISSED_FIELDS, <<>>, CauseOf(built.err)))
             ELSE IF ~BlankCountOk(Len(built.v.blanks))
             THEN Raise(Exception("ValueError", MSG_BLANK_COUNT, <<>>, None))
             ELSE built

\* request_template after the call of the generative source
request_template(text, doc) ==
    IF text = <<>>
    THEN Raise(Exception("RuntimeError", MSG_EMPTY_RESPONSE, <<>>, None))
    ELSE parse_template_payload(strip_code_fence(text), doc)

(***************************************************************************)
(* str.format with keyword arguments on a skeleton of tokens: the braces,  *)
(* identifier words, the digit 0 and the space.  The scan goes left to     *)
(* right and the first error ends it.                                      *)
(***************************************************************************)
LBRACE == "{"
RBRACE == "}"
DIGIT == "0"
SPACE == " "

IsBrace(tok) == tok \in {LBRACE, RBRACE}

\* index of the first brace of s at or after i, 0 when there is none
RECURSIVE FirstBrace(_, _)
FirstBrace(s, i) ==
    IF i > Len(s) THEN 0
    ELSE IF IsBrace(s[i]) THEN i
    ELSE FirstBrace(s, i + 1)

\* a field name that is empty or all digits is a positional index
IsPositional(name) == \A i \in 1..Len(name) : name[i] = DIGIT

\* the lookup with a default: a key without an answer yields the empty text
GetFieldDefaultEmpty(name, kwargs) ==
    IF IsPositional(name)
    THEN Raise(Exception("IndexError", "Replacement index out of range", <<>>, None))
    ELSE IF JStr(name) \in DOMAIN kwargs
    THEN Ok(kwargs[JStr(name)])
    ELSE Ok(<<>>)

\* the lookup of one replacement field in the keyword arguments
\* (no positional arguments are passed, so every index is out of range)
GetField(name, kwargs) ==
    IF IsPositional(name)
    THEN Raise(Exception("IndexError", "Replacement index out of range", <<>>, None))
    ELSE IF JStr(name) \in DOMAIN kwargs
    THEN Ok(kwargs[JStr(name)])
    ELSE Raise(Exception("KeyError", "", name, None))

\* the scan of the format string s from index i on, out being the text so far
RECURSIVE Format(_, _, _, _)
Format(s, i, kwargs, out) ==
    IF i > Len(s) THEN Ok(out)
    ELSE IF s[i] = RBRACE
    THEN IF i < Len(s) /\ s[i + 1] = RBRACE
         THEN Format(s, i + 2, kwargs, Append(out, RBRACE))
         ELSE Raise(Exception("ValueError", "Single '}' encountered in format string", <<>>, None))
    ELSE IF s[i] = LBRACE
    THEN IF i = Len(s)
         THEN Raise(Exception("ValueError", "Single '{' encountered in format string", <<>>, None))
         ELSE IF s[i + 1] = LBRACE
         THEN Format(s, i + 2, kwargs, Append(out, LBRACE))
         ELSE LET close == FirstBrace(s, i + 1)
              IN  IF close = 0
                  THEN Raise(Exception("ValueError", "expected '}' before end of string", <<>>, None))
                  ELSE IF s[close] = LBRACE
                  THEN Raise(Exception("ValueError", "unexpected '{' in field name", <<>>, None))
                  ELSE LET got == GetField(SubSeq(s, i + 1, close - 1), kwargs)
                       IN  IF got.ok
                           THEN Format(s, close + 1, kwargs, out \o got.v)
                           ELSE got
    ELSE Format(s, i + 1, kwargs, Append(out, s[i]))

\* StoryTemplate.build: self.skeleton.format with the answers as keywords
build(tpl, kwargs) ==
    IF tpl.skeleton.t # "str"
    THEN Raise(Exception("AttributeError", "no attribute 'format'", <<>>, None))
    ELSE Format(tpl.skeleton.v, 1, kwargs, <<>>)

\* the assignment answers[blank.key] = user_input
SetItem(d, k, val) == [x \in DOMAIN d \cup {k} |-> IF x = k THEN val ELSE d[x]]

\* the empty dictionary
EmptyDict == [x \in {} |-> <<>>]

\* prompt_for_words: one input line per blank, in the order of the blanks;
\* blank.prompt.strip() raises AttributeError when the prompt is no str
RECURSIVE prompt_for_words(_, _, _)
prompt_for_words(blanks, inputs, acc) ==
    IF blanks = <<>> THEN Ok(acc)
    ELSE LET blank == Head(blanks)
         IN  IF blank.prompt.t # "str"
             THEN Raise(Exception("AttributeError", "no attribute 'strip'", <<>>, None))
             ELSE prompt_for_words(Tail(blanks), Tail(inputs),
                                   SetItem(acc, blank.key, Strip(Head(inputs))))

\* build_story once prompt_for_words has returned or raised (asked): build, where
\* only KeyError is turned into RuntimeError
build_story(tpl, asked) ==
    IF ~asked.ok THEN asked
    ELSE LET built == build(tpl, asked.v)
         IN  IF built.ok \/ built.err.type # "KeyError" THEN built
             ELSE Raise(Exception("RuntimeError", MSG_MISSING_ANSWER, built.err.arg,
                                  CauseOf(built.err)))

(***************************************************************************)
(* The documents and input lines the runs are started with                 *)
(***************************************************************************)
KeyNames ==
    <<"animal", "noun", "verb", "adverb", "place", "food", "color", "name",
      "job", "sound", "tool">>
GHOST == "ghost"
NameTokens == {KeyNames[i] : i \in 1..Len(KeyNames)} \cup {GHOST}

AllFields == {"title", "blanks", "skeleton"}
TITLE == JStr(<<"T">>)
PROMPT == JStr(<<"Friendly input prompt", SPACE>>)

BlankItem(key, prompt) ==
    JDict([f \in {"key", "prompt"} |-> IF f = "key" THEN key ELSE prompt])

GoodBlanks(n) == [i \in 1..n |-> BlankItem(JStr(<<KeyNames[i]>>), PROMPT)]

\* the placeholders of the first n key names, a space between them
RECURSIVE Body(_)
Body(n) ==
    IF n = 0 THEN <<>>
    ELSE (IF n = 1 THEN <<>> ELSE Body(n - 1) \o <<SPACE>>) \o <<LBRACE, KeyNames[n], RBRACE>>

\* blank lists that repeat a key: one key twice, and two keys twice
DupBlanks(n) ==
    IF n < 4 THEN {}
    ELSE LET g == GoodBlanks(n)
         IN  {[g EXCEPT ![2] = g[1]], [g EXCEPT ![n] = g[1]], [g EXCEPT ![3] = g[2]],
              [g EXCEPT ![3] = g[2], ![4] = g[1]]}

\* elements that are not an object with a str key and a str prompt
OddItems(k) ==
    {JDict([f \in {"prompt"} |-> PROMPT]),
     JDict([f \in {"key"} |-> JStr(<<k>>)]),
     JNull,
     JStr(<<k>>),
     BlankItem(JNum, PROMPT),
     BlankItem(JStr(<<k>>), JNull)}

OddBlanks(n) ==
    LET g == GoodBlanks(n)
    IN  {[g EXCEPT ![j] = odd] : j \in {1, n}, odd \in OddItems(KeyNames[1])}

\* values of the field blanks that are not a list
NonLists ==
    {JStr(<<>>), JStr(<<"animal">>), JNum, JNull,
     JDict([f \in {} |-> JNull]), JDict([f \in {"key"} |-> JNum])}

Doc(present, title, blanks, skeleton) ==
    JDict([f \in present |->
              CASE f = "title" -> title
                [] f = "blanks" -> blanks
                [] OTHER -> skeleton])

\* text put before and after the placeholders of a skeleton, MaxExtra tokens in all
MaxExtra == 3
ExtraTokens == {LBRACE, RBRACE, GHOST, DIGIT}
Extras == SeqsUpTo(ExtraTokens, MaxExtra)

\* skeletons over the blanks of a smallest template: each key once, one key
\* left out, or one more key than there are blanks; text added on both sides
Skeletons ==
    {x[1] \o Body(m) \o x[2] :
        x \in {y \in Extras \X Extras : Len(y[1]) + Len(y[2]) <= MaxExtra},
        m \in (MinBlanks - 1)..(MinBlanks + 1)}

Counts == {0} \cup ((MinBlanks - 1)..(MaxBlanks + 1))

CountDocs ==
    UNION {{Doc(AllFields, TITLE, JList(b), JStr(Body(n))) :
               b \in {GoodBlanks(n)} \cup DupBlanks(n)} : n \in Counts}

SkeletonDocs ==
    {Doc(AllFields, TITLE, JList(GoodBlanks(MinBlanks)), JStr(sk)) : sk \in Skeletons}

ShapeDocs ==
    {Doc(present, title, blanks, skeleton) :
        present \in SUBSET AllFields,
        title \in {TITLE, JNum},
        blanks \in {JList(b) : b \in {GoodBlanks(MinBlanks)} \cup DupBlanks(MinBlanks)
                                      \cup OddBlanks(MinBlanks)} \cup NonLists,
        skeleton \in {JStr(Body(MinBlanks)), JNum}}

TopLevelDocs == {JList(<<>>), JStr(<<"animal">>), JNum, JNull}

Docs == CountDocs \cup SkeletonDocs \cup ShapeDocs \cup TopLevelDocs

\* a line typed by the player: a word with spaces around it, text with braces,
\* or nothing but a space
USER_BRACES == "{it}"
Inputs == {<<SPACE, "walrus", SPACE>>, <<USER_BRACES>>, <<SPACE>>}

\* what the player types at n prompts: one line at the odd prompts and one
\* line at the even prompts
InputScripts(n) ==
    {[i \in 1..n |-> IF i % 2 = 1 THEN odd ELSE even] : odd \in Inputs, even \in Inputs}

\* the document of the runs that explore the response text
PlainDoc == Doc(AllFields, TITLE, JList(GoodBlanks(MinBlanks)), JStr(Body(MinBlanks)))

(***************************************************************************)
(* The runs of madlibs_cli                                                 *)
(***************************************************************************)
InitMadlibs(texts, docs) ==
    /\ response \in texts
    /\ as_dict \in docs
    /\ payload = <<>>
    /\ payload2 = <<>>
    /\ template = None
    /\ answers = EmptyDict
    /\ story = None
    /\ error = None
    /\ pc = "start"
    /\ reply = <<>>
    /\ word = <<>>
    /\ guessed_letters = {}
    /\ wrong_guesses = 0
    /\ guess = <<>>
    /\ result = None
    /\ hpc = "idle"

\* strip_code_fence applied to the response text
StripCodeFence ==
    /\ pc = "start"
    /\ payload' = strip_code_fence(response)
    /\ pc' = "stripped"
    /\ UNCHANGED <<response, as_dict, payload2, template, answers, story, error, hangman_vars>>

\* strip_code_fence applied to what it returned
StripAgain ==
    /\ pc = "stripped"
    /\ payload2' = strip_code_fence(payload)
    /\ pc' = "restripped"
    /\ UNCHANGED <<response, as_dict, payload, template, answers, story, error, hangman_vars>>

\* main: template = request_template(...)
RequestTemplate ==
    /\ pc = "start"
    /\ LET r == request_template(response, as_dict)
       IN  /\ payload' = IF response = <<>> THEN payload ELSE strip_code_fence(response)
           /\ template' = IF r.ok THEN r.v ELSE None
           /\ error' = IF r.ok THEN None ELSE r.err
           /\ pc' = IF r.ok THEN "validated" ELSE "failed"
    /\ UNCHANGED <<response, as_dict, payload2, answers, story, hangman_vars>>

\* main: story = build_story(template), the player typing one line per blank
BuildStory ==
    /\ pc = "validated"
    /\ \E inputs \in InputScripts(Len(template.blanks)) :
          LET asked == prompt_for_words(template.blanks, inputs, EmptyDict)
              r == build_story(template, asked)
          IN  /\ answers' = IF asked.ok THEN asked.v ELSE EmptyDict
              /\ story' = IF r.ok THEN [type |-> "str", v |-> r.v] ELSE None
              /\ error' = IF r.ok THEN None ELSE r.err
              /\ pc' = IF r.ok THEN "done" ELSE "failed"
    /\ UNCHANGED <<response, as_dict, payload, payload2, template, hangman_vars>>

\* the sanitizer and the parse of what it returns, over all response texts
InitSan == InitMadlibs(Texts, {PlainDoc})
NextSan == StripCodeFence \/ StripAgain \/ RequestTemplate
SpecSan == InitSan /\ [][NextSan]_vars

\* validation and rendering, over the documents
InitTpl == InitMadlibs({<<DOC>>}, Docs)
NextTpl == RequestTemplate \/ BuildStory
SpecTpl == InitTpl /\ [][NextTpl]_vars

(***************************************************************************)
(* src/hangman_cli.py.  Text is a sequence of characters here.             *)
(***************************************************************************)
LowerLetters == {"a", "b", "c", "d", "e", "f", "g", "h"}
UpperLetters == {"A"}
DQUOTE == "\""
SQUOTE == "'"

\* str.isalpha() of one character
IsAlpha(c) == c \in LowerLetters \cup UpperLetters

\* str.lower() of one character
LowerChar(c) == IF c = "A" THEN "a" ELSE c
LowerText(s) == [i \in 1..Len(s) |-> LowerChar(s[i])]

\* str.strip(chars): drop the characters of the set cs at both ends
RECURSIVE LStripChars(_, _)
LStripChars(s, cs) ==
    IF s # <<>> /\ Head(s) \in cs THEN LStripChars(Tail(s), cs) ELSE s

RECURSIVE RStripChars(_, _)
RStripChars(s, cs) ==
    IF s # <<>> /\ s[Len(s)] \in cs THEN RStripChars(SubSeq(s, 1, Len(s) - 1), cs) ELSE s

StripChars(s, cs) == RStripChars(LStripChars(s, cs), cs)

\* ''.join(c for c in word if c.isalpha())
OnlyAlpha(s) == SelectSeq(s, IsAlpha)

MSG_NO_WORD == "Gemini did not return a valid word."

\* get_random_word after the call of the generative source
get_random_word(text) ==
    IF text = <<>>
    THEN Raise(Exception("RuntimeError", MSG_EMPTY_RESPONSE, <<>>, None))
    ELSE LET cleaned == LowerText(StripChars(StripChars(Strip(text), {DQUOTE}), {SQUOTE}))
             w == OnlyAlpha(cleaned)
         IN  IF w = <<>>
             THEN Raise(Exception("RuntimeError", MSG_NO_WORD, <<>>, None))
             ELSE Ok(w)

max_wrong_guesses == 6

Chars(s) == {s[i] : i \in 1..Len(s)}

\* the tests without the one for a letter guessed before
RejectedNoRepeatTest(g, guessed) ==
    IF g = <<>> THEN TRUE
    ELSE IF Len(g) # 1 THEN TRUE
    ELSE ~IsAlpha(g[1])

\* the four tests of play_hangman that send the loop back to the prompt
Rejected(g, guessed) ==
    IF g = <<>> THEN TRUE
    ELSE IF Len(g) # 1 THEN TRUE
    ELSE IF ~IsAlpha(g[1]) THEN TRUE
    ELSE g[1] \in guessed

\* all(letter in guessed_letters for letter in word)
AllGuessed(w, guessed) == \A i \in 1..Len(w) : w[i] \in guessed

\* any(...) in the place of all(...)
AnyGuessed(w, guessed) == \E i \in 1..Len(w) : w[i] \in guessed

\* the win test of play_hangman
WinTest(w, guessed) == AllGuessed(w, guessed)

\* the replies of the generative source and the lines the player types
MaxReplyLen == 2
ReplyChars == {"a", "b", "A", DQUOTE, SQUOTE, SPACE, "1"}
Replies == SeqsUpTo(ReplyChars, MaxReplyLen)
Lines ==
    {<<>>, <<"1">>, <<"a", "b">>, <<SPACE, "a", SPACE>>}
    \cup {<<c>> : c \in LowerLetters \cup UpperLetters}

InitHang ==
    /\ response = <<>>
    /\ as_dict = JNull
    /\ payload = <<>>
    /\ payload2 = <<>>
    /\ template = None
    /\ answers = EmptyDict
    /\ story = None
    /\ error = None
    /\ pc = "idle"
    /\ reply \in Replies
    /\ word = <<>>
    /\ guessed_letters = {}
    /\ wrong_guesses = 0
    /\ guess = <<>>
    /\ result = None
    /\ hpc = "fetch"

\* main: word = get_random_word(...); the reply is a local of get_random_word
GetRandomWord ==
    /\ hpc = "fetch"
    /\ LET r == get_random_word(reply)
       IN  /\ word' = IF r.ok THEN r.v ELSE word
           /\ result' = IF r.ok THEN None ELSE r.err
           /\ hpc' = IF r.ok THEN "loop" ELSE "failed"
    /\ reply' = <<>>
    /\ UNCHANGED <<guessed_letters, wrong_guesses, guess, madlibs_vars>>

\* one pass of the loop that ends at a continue
RejectGuess(line) ==
    /\ hpc = "loop"
    /\ wrong_guesses < max_wrong_guesses
    /\ LET g == LowerText(Strip(line))
       IN  /\ Rejected(g, guessed_letters)
           /\ guess' = g
    /\ UNCHANGED <<reply, word, guessed_letters, wrong_guesses, result, hpc, madlibs_vars>>

\* one pass of the loop with a guess that passes the tests
AcceptGuess(line) ==
    /\ hpc = "loop"
    /\ wrong_guesses < max_wrong_guesses
    /\ LET g == LowerText(Strip(line))
       IN  /\ ~Rejected(g, guessed_letters)
           /\ guess' = g
           /\ guessed_letters' = guessed_letters \cup {g[1]}
           /\ wrong_guesses' = IF g[1] \in Chars(word) THEN wrong_guesses
                                ELSE wrong_guesses + 1
    /\ IF WinTest(word, guessed_letters')
       THEN result' = [type |-> "bool", v |-> TRUE] /\ hpc' = "returned"
       ELSE IF wrong_guesses' >= max_wrong_guesses
       THEN result' = [type |-> "bool", v |-> FALSE] /\ hpc' = "returned"
       ELSE result' = result /\ hpc' = hpc
    /\ UNCHANGED <<reply, word, madlibs_vars>>

PlayerAccepted == \E line \in Lines : AcceptGuess(line)
PlayerRejected == \E line \in Lines : RejectGuess(line)

NextHang == GetRandomWord \/ PlayerAccepted \/ PlayerRejected
SpecHang == InitHang /\ [][NextHang]_vars

\* the program runs on, and the player goes on entering guesses that are accepted
SpecHangFair == SpecHang /\ WF_vars(GetRandomWord) /\ WF_vars(PlayerAccepted)

(***************************************************************************)
(* Properties of the Mad Libs pipeline                                     *)
(***************************************************************************)
\* the run has left request_template
Requested == pc \in {"validated", "done", "failed"}
\* the run has left build_story
Rendered == pc \in {"done", "failed"} /\ template # None

IsObject(doc) == doc.t = "dict"
HasAllFields(doc) == IsObject(doc) /\ AllFields \subseteq DOMAIN doc.v

\* an element of blanks that is an object with a key and a prompt
IsBlankObject(item) == item.t = "dict" /\ {"key", "prompt"} \subseteq DOMAIN item.v
IsBlankOfStrings(item) ==
    IsBlankObject(item) /\ item.v["key"].t = "str" /\ item.v["prompt"].t = "str"

\* blanks is a list of objects with a key and a prompt
HasBlankObjects(doc) ==
    /\ doc.v["blanks"].t = "list"
    /\ \A i \in 1..Len(doc.v["blanks"].v) : IsBlankObject(doc.v["blanks"].v[i])

\* every field is there and has its type
WellShaped(doc) ==
    /\ HasAllFields(doc)
    /\ doc.v["title"].t = "str"
    /\ doc.v["skeleton"].t = "str"
    /\ doc.v["blanks"].t = "list"
    /\ \A i \in 1..Len(doc.v["blanks"].v) : IsBlankOfStrings(doc.v["blanks"].v[i])

BlankCount(doc) == Len(doc.v["blanks"].v)
KeyAt(doc, i) == doc.v["blanks"].v[i].v["key"]
KeySet(doc) == {KeyAt(doc, i) : i \in 1..BlankCount(doc)}
DistinctKeys(doc) ==
    \A i, j \in 1..BlankCount(doc) : i # j => KeyAt(doc, i) # KeyAt(doc, j)

\* an identifier: in this model one identifier word
WellFormedKey(k) == k.t = "str" /\ Len(k.v) = 1 /\ k.v[1] \in NameTokens

\* s holds the placeholder of a name at i
PlaceholderAt(s, i) ==
    /\ i >= 1
    /\ i + 2 <= Len(s)
    /\ s[i] = LBRACE
    /\ s[i + 1] \in NameTokens
    /\ s[i + 2] = RBRACE

\* the first j tokens of s hold no brace except in placeholders of the keys
PlainPrefix(s, j, keys) ==
    \A m \in 1..j :
        /\ s[m] = LBRACE => (m + 2 <= j /\ PlaceholderAt(s, m) /\ JStr(<<s[m + 1]>>) \in keys)
        /\ s[m] = RBRACE => PlaceholderAt(s, m - 2)

References(s, k) == {i \in 1..Len(s) : PlaceholderAt(s, i) /\ JStr(<<s[i + 1]>>) = k}

\* the payloads of C1: the count in the range, distinct identifiers as keys, and
\* a skeleton of plain text and one placeholder for each key
ValidPayload(doc) ==
    /\ WellShaped(doc)
    /\ BlankCount(doc) >= MinBlanks
    /\ BlankCount(doc) <= MaxBlanks
    /\ \A i \in 1..BlankCount(doc) : WellFormedKey(KeyAt(doc, i))
    /\ DistinctKeys(doc)
    /\ PlainPrefix(doc.v["skeleton"].v, Len(doc.v["skeleton"].v), KeySet(doc))
    /\ \A k \in KeySet(doc) : Cardinality(References(doc.v["skeleton"].v, k)) = 1

HasBrace(text) == \E i \in 1..Len(text) : IsBrace(text[i])

\* C1: a payload with 8 to 10 blanks, distinct identifier keys and a skeleton that
\* references each key exactly once is validated, is rendered with one answer per
\* key, and no brace of a placeholder is left in the story.
C1_ValidPayloadRenders ==
    ValidPayload(as_dict) =>
        /\ pc # "failed"
        /\ error = None
        /\ Requested => template # None
        /\ pc = "done" =>
              /\ DOMAIN answers = KeySet(as_dict)
              /\ story.type = "str"
              /\ ~HasBrace(story.v)

C1_Witness ==
    /\ pc = "done"
    /\ ValidPayload(as_dict)
    /\ BlankCount(as_dict) = MinBlanks
    /\ \E i \in 1..Len(story.v) : story.v[i] = USER_BRACES
    /\ \E i \in 1..Len(story.v) : story.v[i] = "walrus"

OutOfRange(doc) ==
    WellShaped(doc) /\ (BlankCount(doc) < MinBlanks \/ BlankCount(doc) > MaxBlanks)

\* C2 as amended: a well-shaped payload with fewer than 8 or more than 10 blanks
\* is refused with ValueError, Template must contain between 8 and 10 blanks, a
\* message that does not carry the count, and no template is returned.
C2_OutOfRangeRefused ==
    (Requested /\ OutOfRange(as_dict)) =>
        /\ pc = "failed"
        /\ template = None
        /\ error = Exception("ValueError", MSG_BLANK_COUNT, <<>>, None)

C2_Witness ==
    /\ pc = "failed"
    /\ OutOfRange(as_dict)
    /\ BlankCount(as_dict) = MinBlanks - 1
    /\ error.msg = MSG_BLANK_COUNT

\* C2 as claimed: the error of an out of range payload carries the count n.
C2_ErrorCarriesCount ==
    (Requested /\ OutOfRange(as_dict)) =>
        /\ pc = "failed"
        /\ template = None
        /\ Len(error.arg) = 1
        /\ error.arg[1] = BlankCount(as_dict)

MissingField(doc) == IsObject(doc) /\ ~(AllFields \subseteq DOMAIN doc.v)

\* the first field parse_template_payload reads and does not find
FirstAbsent(doc) ==
    IF "blanks" \notin DOMAIN doc.v THEN "blanks"
    ELSE IF "title" \notin DOMAIN doc.v THEN "title"
    ELSE "skeleton"

\* C3 as amended: a payload that lacks title, blanks or skeleton is refused with
\* ValueError, Gemini response JSON missed required fields, a message that names
\* no field, and no template is returned; the exception it was raised from is
\* the KeyError of the first absent field in the order blanks, title, skeleton
\* when blanks is absent or is a list of objects with key and prompt.
C3_MissingFieldRefused ==
    (Requested /\ MissingField(as_dict)) =>
        /\ pc = "failed"
        /\ template = None
        /\ error.type = "ValueError"
        /\ error.msg = MSG_MISSED_FIELDS
        /\ error.arg = <<>>
        /\ ("blanks" \notin DOMAIN as_dict.v \/ HasBlankObjects(as_dict)) =>
              error.cause = [type |-> "KeyError", arg |-> <<FirstAbsent(as_dict)>>]

C3_Witness ==
    /\ pc = "failed"
    /\ MissingField(as_dict)
    /\ DOMAIN as_dict.v = {"blanks", "skeleton"}
    /\ HasBlankObjects(as_dict)
    /\ error.cause = [type |-> "KeyError", arg |-> <<"title">>]

\* C3 as claimed: the error of a payload that lacks a field names an absent
\* field (here in its message or in the exception it was raised from).
C3_ErrorNamesAbsentField ==
    (Requested /\ MissingField(as_dict)) =>
        /\ pc = "failed"
        /\ template = None
        /\ \E f \in AllFields \ DOMAIN as_dict.v :
              \/ error.arg = <<f>>
              \/ error.cause = [type |-> "KeyError", arg |-> <<f>>]

\* a payload with every field, a list of blank objects, and a key that repeats
DuplicateKey(doc) ==
    /\ HasAllFields(doc)
    /\ HasBlankObjects(doc)
    /\ ~DistinctKeys(doc)

\* C4 as claimed: validation never returns a template for a payload in which a
\* key repeats, so that none reaches the answers or the renderer.
C4_DuplicateKeyRefused ==
    (Requested /\ DuplicateKey(as_dict)) =>
        /\ pc = "failed"
        /\ template = None

\* the template is of strings: its skeleton, and the key and prompt of each blank
TemplateOfStrings ==
    /\ template # None
    /\ template.skeleton.t = "str"
    /\ \A i \in 1..Len(template.blanks) :
          template.blanks[i].key.t = "str" /\ template.blanks[i].prompt.t = "str"

\* the skeleton holds, at i, the placeholder of a name that has no answer
UnresolvedAt(i) ==
    /\ PlaceholderAt(template.skeleton.v, i)
    /\ JStr(<<template.skeleton.v[i + 1]>>) \notin DOMAIN answers

\* build_story failed with the RuntimeError that names the key
MissingAnswerFor(name) ==
    /\ pc = "failed"
    /\ story = None
    /\ error = Exception("RuntimeError", MSG_MISSING_ANSWER, <<name>>,
                         [type |-> "KeyError", arg |-> <<name>>])

\* C5 as amended: when the skeleton of a template of strings holds a placeholder
\* of the plain form, a name in braces, whose key has no answer, and the text
\* before it is plain text and plain placeholders whose keys have answers, render
\* fails with RuntimeError, Missing answer for placeholder, naming that key, and
\* returns no text.
C5_FirstUnresolvedReported ==
    (Rendered /\ TemplateOfStrings) =>
        \A i \in 1..Len(template.skeleton.v) :
            (UnresolvedAt(i) /\ PlainPrefix(template.skeleton.v, i - 1, DOMAIN answers))
                => MissingAnswerFor(template.skeleton.v[i + 1])

C5_Witness ==
    /\ Rendered
    /\ TemplateOfStrings
    /\ MissingAnswerFor(GHOST)
    /\ \E i \in 2..Len(template.skeleton.v) :
          UnresolvedAt(i) /\ PlainPrefix(template.skeleton.v, i - 1, DOMAIN answers)

\* C5 as claimed: whenever the skeleton holds a placeholder whose key has no
\* answer, render fails with the error that names that key, and with no other.
C5_EveryUnresolvedReported ==
    (Rendered /\ TemplateOfStrings) =>
        \A i \in 1..Len(template.skeleton.v) :
            UnresolvedAt(i) => MissingAnswerFor(template.skeleton.v[i + 1])

\* a response that is a fence, a language tag, a line break, content and a fence
TaggedFence(text) ==
    /\ Len(text) >= 5
    /\ text[1] = FENCE
    /\ text[2] \in {"json", "JSON"}
    /\ text[3] = NL
    /\ text[Len(text)] = FENCE
    /\ \A i \in 4..(Len(text) - 1) : text[i] # FENCE
    /\ Strip(SubSeq(text, 4, Len(text) - 1)) # <<>>

InnerContent(text) == Strip(SubSeq(text, 4, Len(text) - 1))

\* C6 as claimed: of a fenced block with a language tag line strip_code_fence
\* returns the inner content alone, and request_template then ends as it does
\* on the content without the fence.
C6_TagLineStripped ==
    TaggedFence(response) =>
        /\ pc \in {"stripped", "validated", "failed"} => payload = InnerContent(response)
        /\ pc \in {"validated", "failed"} =>
              (pc = "validated") = JsonDecodes(InnerContent(response))

\* C7: strip_code_fence returns a text for every text, and applied to its own
\* result it returns that result.
C7_SanitizeIdempotent ==
    /\ pc \in {"stripped", "restripped"} => payload \in Seq(TextTokens)
    /\ pc = "restripped" => (payload2 \in Seq(TextTokens) /\ payload2 = payload)

C7_Witness ==
    /\ pc = "restripped"
    /\ StartsWithFence(Strip(response))
    /\ payload # Strip(response)
    /\ Len(payload) >= 2
    /\ payload2 = payload

\* C8 as claimed: a template that validation returns has a str title, a str
\* skeleton and blanks whose key and prompt are str.
C8_TemplateIsTyped ==
    template # None =>
        /\ template.title.t = "str"
        /\ template.skeleton.t = "str"
        /\ \A i \in 1..Len(template.blanks) :
              template.blanks[i].key.t = "str" /\ template.blanks[i].prompt.t = "str"

(***************************************************************************)
(* Properties of play_hangman                                              *)
(***************************************************************************)
\* a guess is refused: empty, longer than one character, no letter, or a repeat
Refused(g, guessed) ==
    IF Len(g) # 1 THEN TRUE
    ELSE ~IsAlpha(g[1]) \/ g[1] \in guessed

\* the state properties of C9
HangmanRange ==
    /\ wrong_guesses \in 0..max_wrong_guesses
    /\ \A c \in guessed_letters : IsAlpha(c)

\* the step properties of C9, guess' being the line just read
HangmanStep ==
    /\ wrong_guesses' \in {wrong_guesses, wrong_guesses + 1}
    /\ wrong_guesses' = wrong_guesses + 1 <=>
          (hpc = "loop" /\ ~Refused(guess', guessed_letters) /\ guess'[1] \notin Chars(word))
    /\ (hpc = "loop" /\ Refused(guess', guessed_letters)) =>
          (guessed_letters' = guessed_letters /\ wrong_guesses' = wrong_guesses)
    /\ (hpc = "loop" /\ ~Refused(guess', guessed_letters)) =>
          guessed_letters' = guessed_letters \cup {guess'[1]}

\* C9: wrong_guesses stays in 0..6 and guessed_letters holds single letters;
\* wrong_guesses grows, by one, exactly at a single letter that was not guessed
\* and is not in the word; a refused line changes neither.
C9_GuessesBounded == []HangmanRange /\ [][HangmanStep]_vars

C9_Witness ==
    /\ hpc = "loop"
    /\ wrong_guesses = max_wrong_guesses - 1
    /\ Len(guess) = 2
    /\ Cardinality(guessed_letters) = max_wrong_guesses

Playing == hpc \in {"loop", "returned"}
Ended == hpc \in {"returned", "failed"}

\* the result of the game, and that the game goes on only while it is open
HangmanResult ==
    /\ Playing => (word # <<>> /\ \A i \in 1..Len(word) : word[i] \in LowerLetters)
    /\ hpc = "loop" =>
          (wrong_guesses < max_wrong_guesses /\ ~(Chars(word) \subseteq guessed_letters))
    /\ hpc = "returned" =>
          /\ result.type = "bool"
          /\ result.v = TRUE <=>
                (Chars(word) \subseteq guessed_letters /\ wrong_guesses < max_wrong_guesses)
          /\ result.v = FALSE <=>
                (wrong_guesses = max_wrong_guesses /\ ~(Chars(word) \subseteq guessed_letters))

\* C10: while the player goes on entering accepted guesses the game ends; it
\* returns True exactly when the word is complete with fewer than 6 wrong
\* guesses, and False exactly when the sixth wrong guess comes first.
C10_GameEndsDecided == <>Ended /\ []HangmanResult

C10_Witness ==
    /\ hpc = "returned"
    /\ result.v = TRUE
    /\ wrong_guesses = max_wrong_guesses - 1
    /\ Len(word) = 2
    /\ word[1] # word[2]

====
